---- MODULE Spec2Model ----
(***************************************************************************)
(* Model of BytecodeArrayWriter (src/interpreter/bytecode-array-writer.cc): *)
(* the instruction encoder, the label/jump resolver with its in-place      *)
(* patching of forward jumps, and the finalizer.                           *)
(*                                                                         *)
(* Conventions.                                                            *)
(*  - The byte buffer is a vector of bytes 0..255, kept run-length encoded *)
(*    so that buffers of tens of thousands of bytes stay small values.     *)
(*  - A uint32_t operand is kept as the int32 with the same bit pattern    *)
(*    (TLC integers are 32 bits wide); truncation to 8 or 16 bits is       *)
(*    "% 256" / "% 65536", which is the same for both readings.            *)
(*  - DCHECK / CHECK are modelled as enabled: a failing one aborts the     *)
(*    process, status becomes "fatal" and the state is the one reached at  *)
(*    the abort.                                                           *)
(*  - Code of the repository that is not in bytecode-array-writer.cc       *)
(*    (operand metadata, BytecodeLabel, ConstantArrayBuilder, the source   *)
(*    position table) is modelled from the specification's interface.      *)
(***************************************************************************)
EXTENDS Integers, Sequences, FiniteSets, TLC

(***************************************************************************)
(* Bounds of the model.                                                    *)
(***************************************************************************)
NumLabels == 2
\* calls of Write, WriteJump and BindLabel per behaviour
MaxCalls == 3
\* lengths of the run of one-byte instructions written by WriteRun: NearRun and
\* NearRun + 3 lie around the limits of a one-byte operand, FarRun and
\* FarRun + 4 around those of a two-byte operand
NearRun == 125
FarRun == 32764

Labels == 1..NumLabels

(***************************************************************************)
(* Operand metadata (bytecodes.h): sizes, scales, operand types.           *)
(***************************************************************************)
kNone == 0
kByte == 1
kShort == 2
kQuad == 4

kSingle == 1
kDouble == 2
kQuadruple == 4

kPointerSize == 8
kMaxInt == 2147483647
kInvalidOffset == -1

\* the opcodes of the model, in enum order: ToByte is the position
BytecodeList ==
  << "Wide", "ExtraWide", "LdaZero", "Star", "CallRuntime",
     "Jump", "JumpConstant", "JumpIfTrue", "JumpIfTrueConstant", "Illegal" >>

ToByte(bytecode) ==
  (CHOOSE i \in 1..Len(BytecodeList) : BytecodeList[i] = bytecode) - 1

FromByte(byte) ==
  IF byte < Len(BytecodeList) THEN BytecodeList[byte + 1] ELSE "Illegal"

IsJumpImmediate(bytecode) == bytecode \in {"Jump", "JumpIfTrue"}

IsJumpConstant(bytecode) == bytecode \in {"JumpConstant", "JumpIfTrueConstant"}

IsJump(bytecode) == IsJumpImmediate(bytecode) \/ IsJumpConstant(bytecode)

IsPrefixScalingBytecode(bytecode) == bytecode \in {"Wide", "ExtraWide"}

OperandScaleToPrefixBytecode(operand_scale) ==
  IF operand_scale = kDouble THEN "Wide" ELSE "ExtraWide"

PrefixBytecodeToOperandScale(bytecode) ==
  IF bytecode = "Wide" THEN kDouble ELSE kQuadruple

\* operand types of a bytecode, in metadata order
GetOperandTypes(bytecode) ==
  CASE bytecode = "Star" -> << "Reg" >>
    [] bytecode = "CallRuntime" -> << "RuntimeId", "MaybeReg", "RegCount" >>
    [] bytecode \in {"Jump", "JumpIfTrue"} -> << "Imm" >>
    [] bytecode \in {"JumpConstant", "JumpIfTrueConstant"} -> << "Idx" >>
    [] OTHER -> << >>

\* operand_types[i] of the C++ array (0-based), kNone past the last operand
OperandTypeAt(bytecode, i) ==
  IF i < Len(GetOperandTypes(bytecode))
  THEN GetOperandTypes(bytecode)[i + 1]
  ELSE "None"

NumberOfOperands(bytecode) == Len(GetOperandTypes(bytecode))

IsRegisterOperandType(operand_type) == operand_type \in {"Reg", "MaybeReg"}

\* width of one operand: a fixed-width type ignores the scale
OperandSizeOf(operand_type, operand_scale) ==
  CASE operand_type = "RuntimeId" -> kShort
    [] operand_type = "None" -> kNone
    [] OTHER -> operand_scale

GetOperandSizeAt(bytecode, operand_scale, i) ==
  OperandSizeOf(OperandTypeAt(bytecode, i), operand_scale)

RECURSIVE BitmapFrom(_, _)
BitmapFrom(bytecode, i) ==
  IF i >= NumberOfOperands(bytecode) THEN 0
  ELSE (IF IsRegisterOperandType(OperandTypeAt(bytecode, i)) THEN 2 ^ i ELSE 0)
       + BitmapFrom(bytecode, i + 1)

GetRegisterOperandBitmap(bytecode) == BitmapFrom(bytecode, 0)

GetNumberOfRegistersRepresentedBy(operand_type) ==
  IF IsRegisterOperandType(operand_type) THEN 1 ELSE 0

SizeForSignedOperand(value) ==
  IF value >= -128 /\ value <= 127 THEN kByte
  ELSE IF value >= -32768 /\ value <= 32767 THEN kShort
  ELSE kQuad

SizeForUnsignedOperand(value) ==
  IF value >= 0 /\ value <= 255 THEN kByte
  ELSE IF value >= 0 /\ value <= 65535 THEN kShort
  ELSE kQuad

OperandSizesToScale(operand_size) == operand_size

\* Register::FromOperand(operand).index()
RegisterIndex(operand) == operand

Max(a, b) == IF a >= b THEN a ELSE b

(***************************************************************************)
(* The byte buffer (a vector of uint8_t).  It is kept run-length encoded: *)
(* a sequence of runs [byte, count] with count > 0 and no two adjacent     *)
(* runs of the same byte, so that one byte vector has one representation.  *)
(* Size, At, SetAt, PushBack are the vector's size(), at(k) read,          *)
(* at(k) write and push_back.                                              *)
(***************************************************************************)
EmptyBytes == << >>

RECURSIVE SizeFrom(_, _)
SizeFrom(bytes, i) ==
  IF i > Len(bytes) THEN 0 ELSE bytes[i].count + SizeFrom(bytes, i + 1)

Size(bytes) == SizeFrom(bytes, 1)

\* n copies of byte v appended
PushRun(bytes, v, n) ==
  IF n = 0 THEN bytes
  ELSE IF Len(bytes) > 0 /\ bytes[Len(bytes)].byte = v
  THEN [bytes EXCEPT ![Len(bytes)].count = @ + n]
  ELSE Append(bytes, [byte |-> v, count |-> n])

PushBack(bytes, v) == PushRun(bytes, v, 1)

RECURSIVE PushAll(_, _)
PushAll(bytes, values) ==
  IF values = << >> THEN bytes
  ELSE PushAll(PushBack(bytes, Head(values)), Tail(values))

RECURSIVE PushRuns(_, _)
PushRuns(bytes, runs) ==
  IF runs = << >> THEN bytes
  ELSE PushRuns(PushRun(bytes, Head(runs).byte, Head(runs).count), Tail(runs))

\* the run that holds offset k, and the offset at which that run starts
RECURSIVE RunOf(_, _, _, _)
RunOf(bytes, i, start, k) ==
  IF k < start + bytes[i].count THEN [run |-> i, start |-> start]
  ELSE RunOf(bytes, i + 1, start + bytes[i].count, k)

At(bytes, k) == bytes[RunOf(bytes, 1, 0, k).run].byte

SetAt(bytes, k, v) ==
  LET at == RunOf(bytes, 1, 0, k)
      old == bytes[at.run]
  IN PushRuns(SubSeq(bytes, 1, at.run - 1),
              << [byte |-> old.byte, count |-> k - at.start],
                 [byte |-> v, count |-> 1],
                 [byte |-> old.byte, count |-> at.start + old.count - k - 1] >>
              \o SubSeq(bytes, at.run + 1, Len(bytes)))

\* the n bytes from offset k on, as a sequence
BytesAt(bytes, k, n) == [i \in 1..n |-> At(bytes, k + i - 1)]

\* static_cast<uint8_t>
U8(v) == v % 256

\* static_cast<uint16_t>
U16(v) == v % 65536

WriteUnalignedUInt16(v) == << v % 256, (v \div 256) % 256 >>

WriteUnalignedUInt32(v) ==
  << v % 256, (v \div 256) % 256, (v \div 65536) % 256, (v \div 16777216) % 256 >>

(***************************************************************************)
(* State of one writer, of the collaborators it owns and of the labels the *)
(* caller hands to it.                                                     *)
(***************************************************************************)
VARIABLES
  bytecodes,              \* bytecodes_: the byte buffer
  max_register_count,     \* max_register_count_
  unbound_jumps,          \* unbound_jumps_
  source_positions,       \* positions added to source_position_table_builder_
  constant_array,         \* constant_array_builder_: reservations and entries
  labels,                 \* the BytecodeLabel objects of the caller
  status,                 \* "running", "fatal" (a failed DCHECK/CHECK), "finalized"
  artifact,               \* what ToBytecodeArray returned
  call,                   \* the last call of the interface and its arguments
  pending_sites,          \* history: start offsets of forward jumps not yet patched
  patched_sites,          \* history: start offsets of forward jumps patched
  written,                \* history: the nodes written by completed calls
  fuel                    \* calls the bounds still allow

vars ==
  << bytecodes, max_register_count, unbound_jumps, source_positions,
     constant_array, labels, status, artifact, call, pending_sites,
     patched_sites, written, fuel >>

\* the program state as one value, for the operators that model the methods
Self ==
  [ bytecodes |-> bytecodes,
    max_register_count |-> max_register_count,
    unbound_jumps |-> unbound_jumps,
    source_positions |-> source_positions,
    constant_array |-> constant_array,
    labels |-> labels,
    status |-> status ]

Fatal(s) == [s EXCEPT !.status = "fatal"]

(***************************************************************************)
(* BytecodeLabel (bytecode-label.h).                                       *)
(***************************************************************************)
UnboundLabel == [bound |-> FALSE, offset |-> kInvalidOffset]

is_bound(label) == label.bound

is_forward_target(label) == label.offset # kInvalidOffset /\ ~label.bound

set_referrer(s, l, offset) ==
  [s EXCEPT !.labels[l] = [bound |-> FALSE, offset |-> offset]]

bind_to(s, l, offset) ==
  IF s.labels[l].bound \/ offset = kInvalidOffset
  THEN Fatal(s)
  ELSE [s EXCEPT !.labels[l] = [bound |-> TRUE, offset |-> offset]]

(***************************************************************************)
(* ConstantArrayBuilder (constant-array-builder.h), at its interface: a    *)
(* reservation is created with the width the builder answers, and is later *)
(* discarded or committed with a value, which yields a pool index.  The    *)
(* width answered and the index returned are the builder's choice.         *)
(***************************************************************************)
OperandSizes == {kByte, kShort, kQuad}

EmptyConstantArray ==
  [ reserved |-> [z \in OperandSizes |-> 0], entries |-> << >>, discarded |-> 0 ]

CreateReservedEntry(s, operand_size) ==
  [s EXCEPT !.constant_array.reserved[operand_size] = @ + 1]

DiscardReservedEntry(s, operand_size) ==
  IF s.constant_array.reserved[operand_size] = 0
  THEN Fatal(s)
  ELSE [s EXCEPT !.constant_array.reserved[operand_size] = @ - 1,
                 !.constant_array.discarded = @ + 1]

CommitReservedEntry(s, operand_size, value, entry) ==
  IF s.constant_array.reserved[operand_size] = 0
  THEN Fatal(s)
  ELSE [s EXCEPT !.constant_array.reserved[operand_size] = @ - 1,
                 !.constant_array.entries =
                    Append(@, [index |-> entry, value |-> value, size |-> operand_size])]

UsedIndexes(pool) == {pool.entries[i].index : i \in 1..Len(pool.entries)}

MaxIndexOfSize(operand_size) ==
  CASE operand_size = kByte -> 255
    [] operand_size = kShort -> 65535
    [] OTHER -> kMaxInt

(***************************************************************************)
(* BytecodeNode: bytecode, operands, operand scale, source info.           *)
(***************************************************************************)
NoSourceInfo == [is_valid |-> FALSE, source_position |-> -1, is_statement |-> FALSE]

SourceInfo(position, is_statement) ==
  [is_valid |-> TRUE, source_position |-> position, is_statement |-> is_statement]

Node(bytecode, operands, operand_scale, source_info) ==
  [ bytecode |-> bytecode, operands |-> operands,
    operand_scale |-> operand_scale, source_info |-> source_info ]

\* node->operand(i), 0-based
operand(node, i) == node.operands[i + 1]

\* node->set_bytecode(bytecode, operand0, operand_scale)
set_bytecode(node, bytecode, operand0, operand_scale) ==
  [node EXCEPT !.bytecode = bytecode, !.operands = << operand0 >>,
               !.operand_scale = operand_scale]

(***************************************************************************)
(* BytecodeArrayWriter: the encoder.                                       *)
(***************************************************************************)
UpdateSourcePositionTable(s, node) ==
  LET bytecode_offset == Size(s.bytecodes)
      source_info == node.source_info
  IN IF source_info.is_valid
     THEN [s EXCEPT !.source_positions =
              Append(@, [ bytecode_offset |-> bytecode_offset,
                          source_position |-> source_info.source_position,
                          is_statement |-> source_info.is_statement ])]
     ELSE s

\* the bytes one operand is written as
OperandBytes(operand_size, value) ==
  CASE operand_size = kByte -> << U8(value) >>
    [] operand_size = kShort -> WriteUnalignedUInt16(U16(value))
    [] operand_size = kQuad -> WriteUnalignedUInt32(value)

\* the operand loop of EmitBytecode, from operand i on
RECURSIVE EmitOperands(_, _, _)
EmitOperands(s, node, i) ==
  LET bytecode == node.bytecode
      operand_type == OperandTypeAt(bytecode, i)
      operand_size == GetOperandSizeAt(bytecode, node.operand_scale, i)
      register_operand_bitmap == GetRegisterOperandBitmap(bytecode)
  IN IF operand_type = "None" THEN s
     ELSE IF operand_size = kNone THEN Fatal(s)
     ELSE
       LET pushed == [s EXCEPT !.bytecodes =
                          PushAll(@, OperandBytes(operand_size, operand(node, i)))]
           count == IF OperandTypeAt(bytecode, i + 1) = "RegCount"
                    THEN operand(node, i + 1)
                    ELSE GetNumberOfRegistersRepresentedBy(operand_type)
           counted ==
             IF (register_operand_bitmap \div (2 ^ i)) % 2 = 1
             THEN [pushed EXCEPT !.max_register_count =
                     Max(@, RegisterIndex(operand(node, i)) + count)]
             ELSE pushed
       IN EmitOperands(counted, node, i + 1)

\* mutant: the register count of the node replaces the running maximum
EmitBytecode_ForgetsMaximum(s, node) ==
  IF node.bytecode = "Illegal" THEN Fatal(s)
  ELSE
    LET operand_scale == node.operand_scale
        prefixed ==
          IF operand_scale # kSingle
          THEN [s EXCEPT !.bytecodes =
                  PushBack(@, ToByte(OperandScaleToPrefixBytecode(operand_scale))),
                         !.max_register_count = 0]
          ELSE [s EXCEPT !.max_register_count = 0]
        opcoded == [prefixed EXCEPT !.bytecodes = PushBack(@, ToByte(node.bytecode))]
    IN EmitOperands(opcoded, node, 0)

\* mutant: the scale prefix is not emitted
EmitBytecode_NoPrefix(s, node) ==
  IF node.bytecode = "Illegal" THEN Fatal(s)
  ELSE EmitOperands([s EXCEPT !.bytecodes = PushBack(@, ToByte(node.bytecode))],
                    node, 0)

EmitBytecode(s, node) ==
  IF node.bytecode = "Illegal" THEN Fatal(s)
  ELSE
    LET operand_scale == node.operand_scale
        prefixed ==
          IF operand_scale # kSingle
          THEN [s EXCEPT !.bytecodes =
                  PushBack(@, ToByte(OperandScaleToPrefixBytecode(operand_scale)))]
          ELSE s
        opcoded == [prefixed EXCEPT !.bytecodes = PushBack(@, ToByte(node.bytecode))]
    IN EmitOperands(opcoded, node, 0)

SignedOperand(value, size) ==
  CASE size = kByte -> value % 256
    [] size = kShort -> value % 65536
    [] size = kQuad -> value
    [] OTHER -> 0

GetJumpWithConstantOperand(jump_bytecode) ==
  CASE jump_bytecode = "Jump" -> "JumpConstant"
    [] jump_bytecode = "JumpIfTrue" -> "JumpIfTrueConstant"
    [] OTHER -> "Illegal"

(***************************************************************************)
(* BytecodeArrayWriter: patching a forward jump.  A commit returns the     *)
(* lowest free index of the pool or the highest free index its width can   *)
(* address; `pick` says which.                                             *)
(***************************************************************************)
CommitIndex(pool, operand_size, pick) ==
  LET n == Len(pool.entries)
      used == UsedIndexes(pool)
      top == MaxIndexOfSize(operand_size)
  IN IF pick = "lowest"
     THEN CHOOSE i \in 0..n : i \notin used /\ \A j \in 0..(i - 1) : j \in used
     ELSE CHOOSE i \in (top - n)..top : i \notin used /\ \A j \in (i + 1)..top : j \in used

\* mutant: the displacement is written inline without the range test
PatchJumpWith8BitOperand_Unchecked(s, jump_location, delta, pick) ==
  LET discarded == DiscardReservedEntry(s, kByte)
  IN IF discarded.status = "fatal" THEN discarded
     ELSE [discarded EXCEPT !.bytecodes = SetAt(@, jump_location + 1, U8(delta))]

\* mutant: the operand is appended to the buffer instead of overwriting the
\* placeholder
PatchJumpWith8BitOperand_Appends(s, jump_location, delta, pick) ==
  LET discarded == DiscardReservedEntry(s, kByte)
  IN IF discarded.status = "fatal" THEN discarded
     ELSE [discarded EXCEPT !.bytecodes = PushBack(@, U8(delta))]

PatchJumpWith8BitOperand(s, jump_location, delta, pick) ==
  LET jump_bytecode == FromByte(At(s.bytecodes, jump_location))
      operand_location == jump_location + 1
  IN IF ~IsJumpImmediate(jump_bytecode) THEN Fatal(s)
     ELSE IF At(s.bytecodes, operand_location) # 0 THEN Fatal(s)
     ELSE IF SizeForSignedOperand(delta) = kByte
     THEN LET discarded == DiscardReservedEntry(s, kByte)
          IN IF discarded.status = "fatal" THEN discarded
             ELSE [discarded EXCEPT !.bytecodes = SetAt(@, operand_location, U8(delta))]
     ELSE LET entry == CommitIndex(s.constant_array, kByte, pick)
              committed == CommitReservedEntry(s, kByte, delta, entry)
              constant_bytecode == GetJumpWithConstantOperand(jump_bytecode)
          IN IF committed.status = "fatal" THEN committed
             ELSE IF SizeForUnsignedOperand(entry) # kByte THEN Fatal(committed)
             ELSE IF constant_bytecode = "Illegal" THEN Fatal(committed)
             ELSE [committed EXCEPT !.bytecodes =
                     SetAt(SetAt(@, jump_location, ToByte(constant_bytecode)),
                           operand_location, U8(entry))]

\* mutant: the reservation resolved is one of byte width
PatchJumpWith16BitOperand_ByteReservation(s, jump_location, delta, pick) ==
  LET jump_bytecode == FromByte(At(s.bytecodes, jump_location))
      operand_location == jump_location + 1
      fits == SizeForSignedOperand(delta) <= kShort
      entry == CommitIndex(s.constant_array, kShort, pick)
      constant_bytecode == GetJumpWithConstantOperand(jump_bytecode)
      operand_bytes == IF fits THEN WriteUnalignedUInt16(U16(delta))
                       ELSE WriteUnalignedUInt16(U16(entry))
      resolved ==
        IF fits THEN DiscardReservedEntry(s, kByte)
        ELSE IF constant_bytecode = "Illegal" THEN Fatal(s)
        ELSE CommitReservedEntry(
               [s EXCEPT !.bytecodes = SetAt(@, jump_location, ToByte(constant_bytecode))],
               kByte, delta, entry)
  IN IF ~IsJumpImmediate(jump_bytecode) THEN Fatal(s)
     ELSE IF resolved.status = "fatal" THEN resolved
     ELSE [resolved EXCEPT !.bytecodes =
             SetAt(SetAt(@, operand_location, operand_bytes[1]),
                   operand_location + 1, operand_bytes[2])]

PatchJumpWith16BitOperand(s, jump_location, delta, pick) ==
  LET jump_bytecode == FromByte(At(s.bytecodes, jump_location))
      operand_location == jump_location + 1
      fits == SizeForSignedOperand(delta) <= kShort
      entry == CommitIndex(s.constant_array, kShort, pick)
      constant_bytecode == GetJumpWithConstantOperand(jump_bytecode)
      operand_bytes == IF fits THEN WriteUnalignedUInt16(U16(delta))
                       ELSE WriteUnalignedUInt16(U16(entry))
      resolved ==
        IF fits THEN DiscardReservedEntry(s, kShort)
        ELSE IF constant_bytecode = "Illegal" THEN Fatal(s)
        ELSE CommitReservedEntry(
               [s EXCEPT !.bytecodes = SetAt(@, jump_location, ToByte(constant_bytecode))],
               kShort, delta, entry)
  IN IF ~IsJumpImmediate(jump_bytecode) THEN Fatal(s)
     ELSE IF resolved.status = "fatal" THEN resolved
     ELSE IF ~(At(resolved.bytecodes, operand_location) = 0
               /\ At(resolved.bytecodes, operand_location + 1) = 0)
     THEN Fatal(resolved)
     ELSE [resolved EXCEPT !.bytecodes =
             SetAt(SetAt(@, operand_location, operand_bytes[1]),
                   operand_location + 1, operand_bytes[2])]

\* mutant: the reservation is committed and the pool index written
PatchJumpWith32BitOperand_Commits(s, jump_location, delta, pick) ==
  LET entry == CommitIndex(s.constant_array, kQuad, pick)
      committed == CommitReservedEntry(s, kQuad, delta, entry)
      operand_bytes == WriteUnalignedUInt32(entry)
      operand_location == jump_location + 1
  IN IF committed.status = "fatal" THEN committed
     ELSE [committed EXCEPT !.bytecodes =
             SetAt(SetAt(SetAt(SetAt(@, operand_location, operand_bytes[1]),
                               operand_location + 1, operand_bytes[2]),
                         operand_location + 2, operand_bytes[3]),
                   operand_location + 3, operand_bytes[4])]

PatchJumpWith32BitOperand(s, jump_location, delta, pick) ==
  LET discarded == DiscardReservedEntry(s, kQuad)
      operand_bytes == WriteUnalignedUInt32(delta)
      operand_location == jump_location + 1
  IN IF ~IsJumpImmediate(FromByte(At(s.bytecodes, jump_location))) THEN Fatal(s)
     ELSE IF discarded.status = "fatal" THEN discarded
     ELSE IF ~(\A k \in 0..3 : At(discarded.bytecodes, operand_location + k) = 0)
     THEN Fatal(discarded)
     ELSE [discarded EXCEPT !.bytecodes =
             SetAt(SetAt(SetAt(SetAt(@, operand_location, operand_bytes[1]),
                               operand_location + 1, operand_bytes[2]),
                         operand_location + 2, operand_bytes[3]),
                   operand_location + 3, operand_bytes[4])]

PatchJump(s, jump_target, jump_location, pick) ==
  LET first_bytecode == FromByte(At(s.bytecodes, jump_location))
      prefixed == IsPrefixScalingBytecode(first_bytecode)
      delta == IF prefixed THEN jump_target - jump_location - 1
               ELSE jump_target - jump_location
      prefix_offset == IF prefixed THEN 1 ELSE 0
      operand_scale == IF prefixed THEN PrefixBytecodeToOperandScale(first_bytecode)
                       ELSE kSingle
      jump_bytecode == IF prefixed
                       THEN FromByte(At(s.bytecodes, jump_location + prefix_offset))
                       ELSE first_bytecode
      patched ==
        CASE operand_scale = kSingle ->
               PatchJumpWith8BitOperand(s, jump_location, delta, pick)
          [] operand_scale = kDouble ->
               PatchJumpWith16BitOperand(s, jump_location + prefix_offset, delta, pick)
          [] operand_scale = kQuadruple ->
               PatchJumpWith32BitOperand(s, jump_location + prefix_offset, delta, pick)
  IN IF ~IsJump(jump_bytecode) THEN Fatal(s)
     ELSE IF patched.status = "fatal" THEN patched
     ELSE [patched EXCEPT !.unbound_jumps = @ - 1]

(***************************************************************************)
(* BytecodeArrayWriter: emitting a jump.  `reserved_operand_size` is the   *)
(* width CreateReservedEntry answers when the label is not bound.          *)
(***************************************************************************)
\* mutant: a forward jump keeps the operand scale of the node instead of taking
\* the width of the reservation
EmitJump_KeepsScale(s, node, l, reserved_operand_size) ==
  LET current_offset == Size(s.bytecodes)
      label == s.labels[l]
  IN IF ~IsJump(node.bytecode) THEN Fatal(s)
     ELSE IF operand(node, 0) # 0 THEN Fatal(s)
     ELSE IF is_bound(label)
     THEN IF ~(current_offset >= label.offset) THEN Fatal(s)
          ELSE IF ~(current_offset <= kMaxInt) THEN Fatal(s)
          ELSE
            LET abs_delta == current_offset - label.offset
                delta0 == -abs_delta
                operand_size == SizeForSignedOperand(delta0)
                delta == IF operand_size > kByte THEN delta0 - 1 ELSE delta0
            IN EmitBytecode(s, set_bytecode(node, node.bytecode,
                                            SignedOperand(delta, operand_size),
                                            OperandSizesToScale(operand_size)))
     ELSE
       LET counted == [s EXCEPT !.unbound_jumps = @ + 1]
           referred == set_referrer(counted, l, current_offset)
           reserved == CreateReservedEntry(referred, reserved_operand_size)
       IN EmitBytecode(reserved, set_bytecode(node, node.bytecode, 0, node.operand_scale))

EmitJump(s, node, l, reserved_operand_size) ==
  LET current_offset == Size(s.bytecodes)
      label == s.labels[l]
  IN IF ~IsJump(node.bytecode) THEN Fatal(s)
     ELSE IF operand(node, 0) # 0 THEN Fatal(s)
     ELSE IF is_bound(label)
     THEN IF ~(current_offset >= label.offset) THEN Fatal(s)
          ELSE IF ~(current_offset <= kMaxInt) THEN Fatal(s)
          ELSE
            LET abs_delta == current_offset - label.offset
                delta0 == -abs_delta
                operand_size == SizeForSignedOperand(delta0)
                delta == IF operand_size > kByte THEN delta0 - 1 ELSE delta0
            IN EmitBytecode(s, set_bytecode(node, node.bytecode,
                                            SignedOperand(delta, operand_size),
                                            OperandSizesToScale(operand_size)))
     ELSE
       LET counted == [s EXCEPT !.unbound_jumps = @ + 1]
           referred == set_referrer(counted, l, current_offset)
           reserved == CreateReservedEntry(referred, reserved_operand_size)
           operand_scale == OperandSizesToScale(reserved_operand_size)
       IN EmitBytecode(reserved, set_bytecode(node, node.bytecode, 0, operand_scale))

(***************************************************************************)
(* BytecodeArrayWriter: the interface.                                     *)
(***************************************************************************)
\* mutant: the opcode of the node is not checked
Write_Unchecked(s, node) == EmitBytecode(UpdateSourcePositionTable(s, node), node)

\* mutant: the source position is recorded after the bytes are emitted
Write_PositionAfter(s, node) ==
  IF IsJump(node.bytecode) THEN Fatal(s)
  ELSE LET emitted == EmitBytecode(s, node)
       IN IF emitted.status = "fatal" THEN emitted
          ELSE UpdateSourcePositionTable(emitted, node)

Write(s, node) ==
  IF IsJump(node.bytecode) THEN Fatal(s)
  ELSE EmitBytecode(UpdateSourcePositionTable(s, node), node)

\* mutant: a forward jump is not counted
WriteJump_Uncounted(s, node, l, reserved_operand_size) ==
  LET emitted == EmitJump(UpdateSourcePositionTable(s, node), node, l,
                          reserved_operand_size)
  IN [emitted EXCEPT !.unbound_jumps = s.unbound_jumps]

\* mutant: the pool reservation is made before the label is looked at
WriteJump_AlwaysReserves(s, node, l, reserved_operand_size) ==
  LET emitted == EmitJump(UpdateSourcePositionTable(s, node), node, l,
                          reserved_operand_size)
  IN IF is_bound(s.labels[l])
     THEN CreateReservedEntry(emitted, reserved_operand_size)
     ELSE emitted

WriteJump(s, node, l, reserved_operand_size) ==
  IF ~IsJump(node.bytecode) THEN Fatal(s)
  ELSE EmitJump(UpdateSourcePositionTable(s, node), node, l, reserved_operand_size)

\* mutant: the label is bound without patching the jump that refers to it
BindLabel_SkipsPatch(s, l, pick) == bind_to(s, l, Size(s.bytecodes))

\* mutant: the label is bound to the offset it holds, not to the current offset
BindLabel_KeepsOffset(s, l, pick) ==
  LET label == s.labels[l]
      patched == IF is_forward_target(label)
                 THEN PatchJump(s, Size(s.bytecodes), label.offset, pick)
                 ELSE s
  IN IF patched.status = "fatal" THEN patched
     ELSE bind_to(patched, l, label.offset)

BindLabel(s, l, pick) ==
  LET current_offset == Size(s.bytecodes)
      label == s.labels[l]
      patched == IF is_forward_target(label)
                 THEN PatchJump(s, current_offset, label.offset, pick)
                 ELSE s
  IN IF patched.status = "fatal" THEN patched
     ELSE bind_to(patched, l, current_offset)

\* mutant: the pending jump count is decremented again after the patch
BindLabelTo_CountsTwice(s, t, l, pick) ==
  LET label == s.labels[l]
      target == s.labels[t]
      patched == IF is_forward_target(label)
                 THEN [PatchJump(s, target.offset, label.offset, pick)
                         EXCEPT !.unbound_jumps = @ - 1]
                 ELSE s
  IN IF is_bound(label) THEN Fatal(s)
     ELSE IF ~is_bound(target) THEN Fatal(s)
     ELSE IF patched.status = "fatal" THEN patched
     ELSE bind_to(patched, l, target.offset)

\* mutant: the jump is patched to the current offset, not to the target's
BindLabelTo_CurrentOffset(s, t, l, pick) ==
  LET label == s.labels[l]
      target == s.labels[t]
      patched == IF is_forward_target(label)
                 THEN PatchJump(s, Size(s.bytecodes), label.offset, pick)
                 ELSE s
  IN IF is_bound(label) THEN Fatal(s)
     ELSE IF ~is_bound(target) THEN Fatal(s)
     ELSE IF patched.status = "fatal" THEN patched
     ELSE bind_to(patched, l, target.offset)

BindLabelTo(s, t, l, pick) ==
  LET label == s.labels[l]
      target == s.labels[t]
      patched == IF is_forward_target(label)
                 THEN PatchJump(s, target.offset, label.offset, pick)
                 ELSE s
  IN IF is_bound(label) THEN Fatal(s)
     ELSE IF ~is_bound(target) THEN Fatal(s)
     ELSE IF patched.status = "fatal" THEN patched
     ELSE bind_to(patched, l, target.offset)

\* mutant: the frame is sized for the fixed registers only
ToBytecodeArray_FixedFrame(s, fixed_register_count, parameter_count) ==
  IF s.unbound_jumps # 0
  THEN [state |-> Fatal(s), bytecode_array |-> << >>]
  ELSE [ state |-> [s EXCEPT !.status = "finalized"],
         bytecode_array |->
           [ bytecode_size |-> Size(s.bytecodes),
             bytecodes |-> s.bytecodes,
             frame_size |-> fixed_register_count * kPointerSize,
             parameter_count |-> parameter_count,
             constant_pool |-> s.constant_array.entries,
             source_position_table |-> s.source_positions ] ]

\* mutant: the pending jump count is not checked
ToBytecodeArray_Unguarded(s, fixed_register_count, parameter_count) ==
  [ state |-> [s EXCEPT !.status = "finalized"],
    bytecode_array |->
      [ bytecode_size |-> Size(s.bytecodes),
        bytecodes |-> s.bytecodes,
        frame_size |-> Max(fixed_register_count, s.max_register_count) * kPointerSize,
        parameter_count |-> parameter_count,
        constant_pool |-> s.constant_array.entries,
        source_position_table |-> s.source_positions ] ]

\* the state the call leaves and the BytecodeArray it returns
ToBytecodeArray(s, fixed_register_count, parameter_count) ==
  LET bytecode_size == Size(s.bytecodes)
      frame_size_for_locals == fixed_register_count * kPointerSize
      frame_size_used == s.max_register_count * kPointerSize
      frame_size == Max(frame_size_for_locals, frame_size_used)
  IN IF s.unbound_jumps # 0
     THEN [state |-> Fatal(s), bytecode_array |-> << >>]
     ELSE [ state |-> [s EXCEPT !.status = "finalized"],
            bytecode_array |->
              [ bytecode_size |-> bytecode_size,
                bytecodes |-> s.bytecodes,
                frame_size |-> frame_size,
                parameter_count |-> parameter_count,
                constant_pool |-> s.constant_array.entries,
                source_position_table |-> s.source_positions ] ]

(***************************************************************************)
(* The calls the model makes.                                              *)
(***************************************************************************)
LdaZeroNode == Node("LdaZero", << >>, kSingle, NoSourceInfo)

WriteNodes ==
  { LdaZeroNode,
    \* a register operand below zero: the uint32_t 0xFFFFFFFB
    Node("Star", << -5 >>, kSingle, SourceInfo(7, TRUE)),
    Node("Star", << 300 >>, kDouble, NoSourceInfo),
    Node("CallRuntime", << 4660, 70000, 3 >>, kQuadruple, SourceInfo(9, FALSE)) }

JumpNodes ==
  { Node("Jump", << 0 >>, kSingle, SourceInfo(11, TRUE)),
    Node("JumpIfTrue", << 0 >>, kSingle, NoSourceInfo) }

Picks == {"lowest", "highest"}

FixedRegisterCounts == {4}

\* Labels are interchangeable objects: the caller takes fresh ones in order, so a
\* label is handed over only when all labels before it have been used
UsableLabels == {l \in Labels : \A k \in 1..(l - 1) : labels[k] # UnboundLabel}

NoNode == Node("Illegal", << >>, kSingle, NoSourceInfo)

Call(op, node, l, t, arg) ==
  [op |-> op, node |-> node, label |-> l, target |-> t, arg |-> arg]

\* the program state after a call
Becomes(s) ==
  /\ bytecodes' = s.bytecodes
  /\ max_register_count' = s.max_register_count
  /\ unbound_jumps' = s.unbound_jumps
  /\ source_positions' = s.source_positions
  /\ constant_array' = s.constant_array
  /\ labels' = s.labels
  /\ status' = s.status

Init ==
  /\ bytecodes = EmptyBytes
  /\ max_register_count = 0
  /\ unbound_jumps = 0
  /\ source_positions = << >>
  /\ constant_array = EmptyConstantArray
  /\ labels = [l \in Labels |-> UnboundLabel]
  /\ status = "running"
  /\ artifact = << >>
  /\ call = Call("new", NoNode, 0, 0, 0)
  /\ pending_sites = {}
  /\ patched_sites = {}
  /\ written = {}
  /\ fuel = [calls |-> MaxCalls, runs |-> {NearRun, NearRun + 3}]

\* the same construction, with the budget of the long-buffer scenarios
InitFar ==
  /\ bytecodes = EmptyBytes
  /\ max_register_count = 0
  /\ unbound_jumps = 0
  /\ source_positions = << >>
  /\ constant_array = EmptyConstantArray
  /\ labels = [l \in Labels |-> UnboundLabel]
  /\ status = "running"
  /\ artifact = << >>
  /\ call = Call("new", NoNode, 0, 0, 0)
  /\ pending_sites = {}
  /\ patched_sites = {}
  /\ written = {}
  /\ fuel = [calls |-> MaxCalls, runs |-> {FarRun, FarRun + 4}]

DoWrite ==
  /\ status = "running"
  /\ fuel.calls > 0
  /\ \E node \in WriteNodes :
       /\ Becomes(Write(Self, node))
       /\ call' = Call("Write", node, 0, 0, 0)
       /\ written' = written \cup {node}
  /\ fuel' = [fuel EXCEPT !.calls = @ - 1]
  /\ UNCHANGED << artifact, pending_sites, patched_sites >>

\* n successive calls Write(LdaZeroNode): each appends the one byte the node is
\* encoded as, and after the first none changes anything else
WriteRun(s, n) ==
  LET one == Write(s, LdaZeroNode)
      encoding == At(one.bytecodes, Size(s.bytecodes))
  IN [one EXCEPT !.bytecodes = PushRun(s.bytecodes, encoding, n)]

DoWriteRun ==
  /\ status = "running"
  /\ \E n \in fuel.runs :
       /\ Becomes(WriteRun(Self, n))
       /\ call' = Call("WriteRun", LdaZeroNode, 0, 0, n)
       /\ fuel' = [fuel EXCEPT !.runs = {}]
  /\ written' = written \cup {LdaZeroNode}
  /\ UNCHANGED << artifact, pending_sites, patched_sites >>

DoWriteJump ==
  /\ status = "running"
  /\ fuel.calls > 0
  /\ \E node \in JumpNodes, l \in UsableLabels, reserved_operand_size \in OperandSizes :
       LET s == WriteJump(Self, node, l, reserved_operand_size)
       IN /\ Becomes(s)
          /\ call' = Call("WriteJump", node, l, 0, 0)
          /\ pending_sites' =
               IF s.status = "running" /\ ~is_bound(labels[l])
               THEN pending_sites \cup {Size(bytecodes)}
               ELSE pending_sites
          /\ written' = IF s.status = "running" THEN written \cup {node} ELSE written
  /\ fuel' = [fuel EXCEPT !.calls = @ - 1]
  /\ UNCHANGED << artifact, patched_sites >>

\* the history of a bind: the jump at the label's referrer is patched
Patched(s, l) ==
  IF s.status = "running" /\ is_forward_target(labels[l])
  THEN /\ pending_sites' = pending_sites \ {labels[l].offset}
       /\ patched_sites' = patched_sites \cup {labels[l].offset}
  ELSE UNCHANGED << pending_sites, patched_sites >>

DoBindLabel ==
  /\ status = "running"
  /\ fuel.calls > 0
  /\ \E l \in UsableLabels, pick \in Picks :
       LET s == BindLabel(Self, l, pick)
       IN /\ Becomes(s)
          /\ call' = Call("BindLabel", NoNode, l, 0, 0)
          /\ Patched(s, l)
  /\ fuel' = [fuel EXCEPT !.calls = @ - 1]
  /\ UNCHANGED << artifact, written >>

DoBindLabelTo ==
  /\ status = "running"
  /\ fuel.calls > 0
  /\ \E t \in UsableLabels, l \in UsableLabels, pick \in Picks :
       LET s == BindLabelTo(Self, t, l, pick)
       IN /\ Becomes(s)
          /\ call' = Call("BindLabelTo", NoNode, l, t, 0)
          /\ Patched(s, l)
  /\ fuel' = [fuel EXCEPT !.calls = @ - 1]
  /\ UNCHANGED << artifact, written >>

DoToBytecodeArray ==
  /\ status = "running"
  /\ \E fixed_register_count \in FixedRegisterCounts :
       LET returned == ToBytecodeArray(Self, fixed_register_count, 1)
       IN /\ Becomes(returned.state)
          /\ artifact' = returned.bytecode_array
          /\ call' = Call("ToBytecodeArray", NoNode, 0, 0, fixed_register_count)
  /\ UNCHANGED << pending_sites, patched_sites, written, fuel >>

Next ==
  \/ DoWrite
  \/ DoWriteRun
  \/ DoWriteJump
  \/ DoBindLabel
  \/ DoBindLabelTo
  \/ DoToBytecodeArray

Spec == Init /\ [][Next]_vars

SpecFar == InitFar /\ [][Next]_vars

(***************************************************************************)
(* Calls that break the contract of Write and WriteJump: a jump through    *)
(* Write, a non-jump through WriteJump, a jump node whose operand is not 0. *)
(***************************************************************************)
MisuseWriteNodes ==
  { Node("Jump", << 0 >>, kSingle, SourceInfo(13, TRUE)),
    Node("JumpIfTrueConstant", << 0 >>, kSingle, NoSourceInfo) }

MisuseJumpNodes ==
  { Node("Star", << 2 >>, kSingle, SourceInfo(15, FALSE)),
    LdaZeroNode,
    Node("Jump", << 5 >>, kSingle, SourceInfo(17, TRUE)),
    Node("JumpIfTrue", << -1 >>, kSingle, NoSourceInfo) }

DoWriteMisuse ==
  /\ status = "running"
  /\ fuel.calls > 0
  /\ \E node \in MisuseWriteNodes :
       LET s == Write(Self, node)
       IN /\ Becomes(s)
          /\ call' = Call("Write", node, 0, 0, 0)
          /\ written' = IF s.status = "running" THEN written \cup {node} ELSE written
  /\ fuel' = [fuel EXCEPT !.calls = @ - 1]
  /\ UNCHANGED << artifact, pending_sites, patched_sites >>

DoWriteJumpMisuse ==
  /\ status = "running"
  /\ fuel.calls > 0
  /\ \E node \in MisuseJumpNodes, l \in UsableLabels, reserved_operand_size \in OperandSizes :
       LET s == WriteJump(Self, node, l, reserved_operand_size)
       IN /\ Becomes(s)
          /\ call' = Call("WriteJump", node, l, 0, 0)
          /\ pending_sites' =
               IF s.status = "running" /\ ~is_bound(labels[l])
               THEN pending_sites \cup {Size(bytecodes)}
               ELSE pending_sites
          /\ written' = IF s.status = "running" THEN written \cup {node} ELSE written
  /\ fuel' = [fuel EXCEPT !.calls = @ - 1]
  /\ UNCHANGED << artifact, patched_sites >>

NextMisuse ==
  \/ Next
  \/ DoWriteMisuse
  \/ DoWriteJumpMisuse

SpecMisuse == Init /\ [][NextMisuse]_vars

(***************************************************************************)
(* Reading the buffer back: the jump whose instruction starts at offset r, *)
(* and what a step of the model was.                                       *)
(***************************************************************************)
SitePrefix(bytes, r) ==
  IF IsPrefixScalingBytecode(FromByte(At(bytes, r))) THEN 1 ELSE 0

\* width in bytes of the operand of the jump at r
SiteWidth(bytes, r) ==
  CASE At(bytes, r) = ToByte("Wide") -> 2
    [] At(bytes, r) = ToByte("ExtraWide") -> 4
    [] OTHER -> 1

SiteOpcodeAt(bytes, r) == r + SitePrefix(bytes, r)

SiteOperandAt(bytes, r) == SiteOpcodeAt(bytes, r) + 1

SiteOpcode(bytes, r) == FromByte(At(bytes, SiteOpcodeAt(bytes, r)))

\* the w bytes at offset k read as a little-endian unsigned integer (w = 1, 2)
UnsignedAt(bytes, k, w) ==
  IF w = 1 THEN At(bytes, k) ELSE At(bytes, k) + 256 * At(bytes, k + 1)

SignedByte(b) == IF b >= 128 THEN b - 256 ELSE b

\* the w bytes at offset k read as a little-endian two's-complement integer
SignedAt(bytes, k, w) ==
  CASE w = 1 -> SignedByte(At(bytes, k))
    [] w = 2 -> At(bytes, k) + 256 * SignedByte(At(bytes, k + 1))
    [] w = 4 -> At(bytes, k) + 256 * At(bytes, k + 1) + 65536 * At(bytes, k + 2)
                + 16777216 * SignedByte(At(bytes, k + 3))

FitsSigned(v, w) ==
  CASE w = 1 -> -128 <= v /\ v <= 127
    [] w = 2 -> -32768 <= v /\ v <= 32767
    [] w = 4 -> TRUE

MinimalSignedWidth(v) ==
  IF FitsSigned(v, 1) THEN 1 ELSE IF FitsSigned(v, 2) THEN 2 ELSE 4

ConstantVariantOf(bytecode) ==
  CASE bytecode = "Jump" -> "JumpConstant"
    [] bytecode = "JumpIfTrue" -> "JumpIfTrueConstant"

\* offsets a patch of the jump at r may write: its opcode and its operand
PatchableOffsets(bytes, r) ==
  SiteOpcodeAt(bytes, r)..(SiteOperandAt(bytes, r) + SiteWidth(bytes, r) - 1)

\* buffers old and new hold the same bytes at every offset outside `offsets`:
\* new with the old bytes put back at `offsets` is old (runs are kept merged, so
\* equal buffers are equal values)
RECURSIVE PutBack(_, _, _)
PutBack(old, new, offsets) ==
  IF offsets = {} THEN new
  ELSE LET i == CHOOSE k \in offsets : TRUE
       IN PutBack(old, SetAt(new, i, At(old, i)), offsets \ {i})

SameOutside(old, new, offsets) ==
  /\ Size(new) = Size(old)
  /\ PutBack(old, new, offsets) = old

\* the jump at r of the buffer, with the pool, resolves to displacement d
ResolvesTo(bytes, pool, r, d) ==
  LET w == SiteWidth(bytes, r)
      at == SiteOperandAt(bytes, r)
  IN IF IsJumpImmediate(SiteOpcode(bytes, r))
     THEN SignedAt(bytes, at, w) = d
     ELSE /\ IsJumpConstant(SiteOpcode(bytes, r))
          /\ w \in {1, 2}
          /\ \E i \in 1..Len(pool.entries) :
               /\ pool.entries[i].index = UnsignedAt(bytes, at, w)
               /\ pool.entries[i].value = d

Completed == status' = "running"

WriteStep == call'.op \in {"Write", "WriteRun"}

JumpStep == call'.op = "WriteJump"

ForwardJumpStep == JumpStep /\ ~is_bound(labels[call'.label])

BackwardJumpStep == JumpStep /\ is_bound(labels[call'.label])

BindStep == call'.op \in {"BindLabel", "BindLabelTo"}

\* a bind that meets its precondition
ValidBindStep ==
  /\ BindStep
  /\ ~is_bound(labels[call'.label])
  /\ call'.op = "BindLabelTo" => is_bound(labels[call'.target])

\* a bind that has a jump to patch
PatchStep == ValidBindStep /\ is_forward_target(labels[call'.label])

PatchSite == labels[call'.label].offset

PatchTarget ==
  IF call'.op = "BindLabel" THEN Size(bytecodes) ELSE labels[call'.target].offset

PatchDelta == PatchTarget - PatchSite - SitePrefix(bytecodes, PatchSite)

FinalizeStep == call'.op = "ToBytecodeArray"

LastEntry(pool) == pool.entries[Len(pool.entries)]

\* the pool after one reservation of width w was discarded
DiscardedOne(old, new, w) ==
  /\ new.reserved = [old.reserved EXCEPT ![w] = @ - 1]
  /\ new.discarded = old.discarded + 1
  /\ new.entries = old.entries

\* the pool after one reservation of width w was committed with value v
CommittedOne(old, new, w, v) ==
  /\ new.reserved = [old.reserved EXCEPT ![w] = @ - 1]
  /\ new.discarded = old.discarded
  /\ Len(new.entries) = Len(old.entries) + 1
  /\ SubSeq(new.entries, 1, Len(old.entries)) = old.entries
  /\ LastEntry(new).value = v
  /\ LastEntry(new).size = w

(***************************************************************************)
(* C1: a patch of a forward jump with a 1-byte (2-byte) placeholder: if    *)
(* the displacement fits in a signed 8-bit (16-bit) value the reservation  *)
(* is discarded, the displacement is written into the placeholder and the  *)
(* opcode byte is unchanged; otherwise the reservation is committed with   *)
(* the displacement, the opcode becomes the constant-operand variant and   *)
(* the pool index is written into the placeholder.  Every patch completes  *)
(* with exactly one of the two outcomes.                                   *)
(***************************************************************************)
C1_PatchNarrowStep ==
  (PatchStep /\ SiteWidth(bytecodes, PatchSite) \in {1, 2}) =>
    LET r == PatchSite
        w == SiteWidth(bytecodes, r)
        opcode_at == SiteOpcodeAt(bytecodes, r)
        operand_at == SiteOperandAt(bytecodes, r)
    IN /\ Completed
       /\ IF FitsSigned(PatchDelta, w)
          THEN /\ DiscardedOne(constant_array, constant_array', w)
               /\ At(bytecodes', opcode_at) = At(bytecodes, opcode_at)
               /\ SignedAt(bytecodes', operand_at, w) = PatchDelta
          ELSE /\ CommittedOne(constant_array, constant_array', w, PatchDelta)
               /\ At(bytecodes', opcode_at) =
                    ToByte(ConstantVariantOf(SiteOpcode(bytecodes, r)))
               /\ UnsignedAt(bytecodes', operand_at, w) = LastEntry(constant_array').index

C1_PatchNarrow == [][C1_PatchNarrowStep]_vars

\* a 2-byte placeholder was patched by a commit: the displacement did not fit
C1_Witness ==
  /\ status = "running"
  /\ call.op \in {"BindLabel", "BindLabelTo"}
  /\ \E r \in patched_sites :
       /\ SiteWidth(bytecodes, r) = 2
       /\ IsJumpConstant(SiteOpcode(bytecodes, r))

(***************************************************************************)
(* C2, as claimed: a patch of a forward jump with a 4-byte placeholder     *)
(* always commits the reservation with the displacement, and the 4 bytes   *)
(* receive the pool index the commit returns.                              *)
(***************************************************************************)
C2_Original ==
  [][ (PatchStep /\ SiteWidth(bytecodes, PatchSite) = 4) =>
        /\ Completed
        /\ CommittedOne(constant_array, constant_array', 4, PatchDelta)
        /\ SignedAt(bytecodes', SiteOperandAt(bytecodes, PatchSite), 4) =
             LastEntry(constant_array').index ]_vars

(***************************************************************************)
(* C2, amended: a patch of a forward jump with a 4-byte placeholder always *)
(* discards the reservation (it never commits), leaves the opcode byte     *)
(* unchanged and writes the displacement itself into the 4 placeholder     *)
(* bytes, as a little-endian two's-complement value.                       *)
(***************************************************************************)
C2_PatchWideStep ==
  (PatchStep /\ SiteWidth(bytecodes, PatchSite) = 4) =>
    LET r == PatchSite
    IN /\ Completed
       /\ DiscardedOne(constant_array, constant_array', 4)
       /\ At(bytecodes', SiteOpcodeAt(bytecodes, r)) = At(bytecodes, SiteOpcodeAt(bytecodes, r))
       /\ SignedAt(bytecodes', SiteOperandAt(bytecodes, r), 4) = PatchDelta

C2_PatchWide == [][C2_PatchWideStep]_vars

\* a jump with a 4-byte placeholder was patched with a negative displacement
C2_Witness ==
  /\ status = "running"
  /\ \E r \in patched_sites :
       /\ SiteWidth(bytecodes, r) = 4
       /\ SignedAt(bytecodes, SiteOperandAt(bytecodes, r), 4) < 0

(***************************************************************************)
(* C3: a jump written to a bound label at offset target, the buffer being  *)
(* at offset c: the operand width is the minimal signed width of           *)
(* target - c, and the operand bytes read back as a signed integer of that *)
(* width are target - c for one byte and target - c - 1 with a scale       *)
(* prefix; the value is never truncated.                                   *)
(***************************************************************************)
C3_BackwardOperandStep ==
  BackwardJumpStep =>
    LET c == Size(bytecodes)
        d == labels[call'.label].offset - c
        w == SiteWidth(bytecodes', c)
    IN /\ Completed
       /\ w = MinimalSignedWidth(d)
       /\ SignedAt(bytecodes', SiteOperandAt(bytecodes', c), w) =
            (IF w = 1 THEN d ELSE d - 1)

C3_BackwardOperand == [][C3_BackwardOperandStep]_vars

(***************************************************************************)
(* C4: the pending jump count starts at 0, grows by exactly 1 on each      *)
(* WriteJump to an unbound label, drops by exactly 1 on each bind of a     *)
(* label that has a referrer, is changed by no other call, and is never    *)
(* negative.                                                               *)
(***************************************************************************)
C4_Change ==
  IF ForwardJumpStep /\ Completed THEN 1
  ELSE IF PatchStep /\ Completed THEN -1
  ELSE 0

C4_PendingJumpCount ==
  /\ unbound_jumps = 0
  /\ [](unbound_jumps >= 0)
  /\ [][unbound_jumps' = unbound_jumps + C4_Change]_vars

\* one forward jump is patched, another is still pending
C4_Witness ==
  /\ status = "running"
  /\ patched_sites # {}
  /\ pending_sites # {}
  /\ unbound_jumps = 1

(***************************************************************************)
(* C5: ToBytecodeArray is fatal whenever the pending jump count is         *)
(* positive; it returns a bytecode array only from a state in which every  *)
(* forward jump written so far has been patched.                           *)
(***************************************************************************)
C5_FinalizeStep ==
  FinalizeStep =>
    /\ unbound_jumps > 0 => (status' = "fatal" /\ artifact' = artifact)
    /\ status' = "finalized" => (pending_sites = {} /\ unbound_jumps = 0)

C5_FinalizeGuard == [][C5_FinalizeStep]_vars

\* finalization was refused while a forward jump was unpatched
C5_Witness ==
  /\ status = "fatal"
  /\ call.op = "ToBytecodeArray"
  /\ pending_sites # {}
  /\ patched_sites # {}

(***************************************************************************)
(* C6: ToBytecodeArray succeeds only if every label that was handed to the *)
(* writer (it holds a referrer or an offset) is bound.                     *)
(***************************************************************************)
C6_FinalizedLabelsBound ==
  status = "finalized" =>
    \A l \in Labels : labels[l] # UnboundLabel => is_bound(labels[l])

\* finalization succeeded after a label with a forward jump was bound
C6_Witness ==
  /\ status = "finalized"
  /\ patched_sites # {}
  /\ \E l \in Labels : is_bound(labels[l])

(***************************************************************************)
(* C7: the buffer strictly grows on every Write and WriteJump and keeps    *)
(* its length on both forms of BindLabel; a bind changes no byte except    *)
(* the opcode byte and the operand bytes of the one jump it patches (not   *)
(* that jump's prefix byte, not a byte of another instruction).            *)
(***************************************************************************)
C7_BufferStep ==
  /\ ((WriteStep \/ JumpStep) /\ Completed) => Size(bytecodes') > Size(bytecodes)
  /\ BindStep =>
       /\ Size(bytecodes') = Size(bytecodes)
       /\ IF PatchStep
          THEN SameOutside(bytecodes, bytecodes', PatchableOffsets(bytecodes, PatchSite))
          ELSE bytecodes' = bytecodes

C7_BufferFrame == [][C7_BufferStep]_vars

\* a bind rewrote the opcode and the operand of a jump that lies between other
\* instructions
C7_Witness ==
  /\ status = "running"
  /\ call.op \in {"BindLabel", "BindLabelTo"}
  /\ \E r \in patched_sites :
       /\ r > 0
       /\ IsJumpConstant(SiteOpcode(bytecodes, r))
       /\ Size(bytecodes) > SiteOperandAt(bytecodes, r) + SiteWidth(bytecodes, r)

(***************************************************************************)
(* C8: a label is bound at most once: BindLabel(label) on an unbound label *)
(* leaves it bound to the buffer length at the call, no later call changes *)
(* a bound label, and either form of BindLabel on a bound label is fatal.  *)
(***************************************************************************)
C8_BindStep ==
  /\ (call'.op = "BindLabel" /\ ~is_bound(labels[call'.label])) =>
       /\ Completed
       /\ labels'[call'.label] = [bound |-> TRUE, offset |-> Size(bytecodes)]
  /\ \A l \in Labels : is_bound(labels[l]) => labels'[l] = labels[l]
  /\ (BindStep /\ is_bound(labels[call'.label])) => status' = "fatal"

C8_BoundOnce == [][C8_BindStep]_vars

\* a label with a pending jump was bound, and binding it again was refused
C8_Witness ==
  /\ status = "fatal"
  /\ call.op = "BindLabel"
  /\ is_bound(labels[call.label])
  /\ patched_sites # {}

(***************************************************************************)
(* C9: BindLabel(target, label) with target bound and label unbound: label *)
(* becomes bound to target's offset, target and the buffer length are      *)
(* unchanged; if label has a referrer r the jump at r is patched to the    *)
(* displacement from r to target's offset (zero or negative too) and the   *)
(* pending jump count drops by 1, otherwise nothing is patched and the     *)
(* count is unchanged.                                                     *)
(***************************************************************************)
C9_AliasStep ==
  (call'.op = "BindLabelTo" /\ ValidBindStep) =>
    LET l == call'.label
        t == call'.target
    IN /\ Completed
       /\ labels'[l] = [bound |-> TRUE, offset |-> labels[t].offset]
       /\ labels'[t] = labels[t]
       /\ Size(bytecodes') = Size(bytecodes)
       /\ IF is_forward_target(labels[l])
          THEN /\ unbound_jumps' = unbound_jumps - 1
               /\ ResolvesTo(bytecodes', constant_array', labels[l].offset,
                             labels[t].offset - labels[l].offset
                               - SitePrefix(bytecodes, labels[l].offset))
          ELSE /\ unbound_jumps' = unbound_jumps
               /\ bytecodes' = bytecodes
               /\ constant_array' = constant_array

C9_AliasBinding == [][C9_AliasStep]_vars

\* an alias bind patched a jump that lies after the target's offset
C9_Witness ==
  /\ status = "running"
  /\ call.op = "BindLabelTo"
  /\ \E r \in patched_sites :
       /\ patched_sites = {r}
       /\ labels[call.label].offset < r

(***************************************************************************)
(* C10: WriteJump to a bound label creates no pool reservation, emits the  *)
(* node's own opcode (never the constant-operand variant), and leaves the  *)
(* pending jump count and every label unchanged.                           *)
(***************************************************************************)
C10_BackwardStep ==
  BackwardJumpStep =>
    /\ Completed
    /\ constant_array' = constant_array
    /\ SiteOpcode(bytecodes', Size(bytecodes)) = call'.node.bytecode
    /\ unbound_jumps' = unbound_jumps
    /\ labels' = labels

C10_BackwardJump == [][C10_BackwardStep]_vars

\* a backward jump with a scale prefix was written while another jump is pending
C10_Witness ==
  /\ status = "running"
  /\ call.op = "WriteJump"
  /\ is_bound(labels[call.label])
  /\ unbound_jumps > 0
  /\ Size(bytecodes) > NearRun

(***************************************************************************)
(* C11: a label holds at most one pending forward jump: a WriteJump to a   *)
(* label that is unbound and already has a referrer is fatal and leaves    *)
(* the label as it was, so the referrer of the first jump is never         *)
(* overwritten and every jump not yet patched stays the referrer of some   *)
(* label.                                                                  *)
(***************************************************************************)
C11_SecondJumpStep ==
  (JumpStep /\ is_forward_target(labels[call'.label])) =>
    /\ status' = "fatal"
    /\ labels'[call'.label] = labels[call'.label]

C11_EveryPendingJumpReferred ==
  \A r \in pending_sites :
    \E l \in Labels : is_forward_target(labels[l]) /\ labels[l].offset = r

C11_SinglePendingJump ==
  /\ [][C11_SecondJumpStep]_vars
  /\ [](C11_EveryPendingJumpReferred)

(***************************************************************************)
(* The bytes of an instruction, from the node and the operand metadata     *)
(* alone.                                                                  *)
(***************************************************************************)
\* value as w bytes, least significant first (two's complement below zero)
LittleEndian(value, w) == [k \in 1..w |-> (value \div (256 ^ (k - 1))) % 256]

RECURSIVE OperandsEncoding(_, _)
OperandsEncoding(node, i) ==
  IF i >= NumberOfOperands(node.bytecode) THEN << >>
  ELSE LittleEndian(operand(node, i),
                    GetOperandSizeAt(node.bytecode, node.operand_scale, i))
       \o OperandsEncoding(node, i + 1)

Encoding(node) ==
  (IF node.operand_scale = kSingle THEN << >>
   ELSE IF node.operand_scale = kDouble THEN << ToByte("Wide") >>
   ELSE << ToByte("ExtraWide") >>)
  \o << ToByte(node.bytecode) >>
  \o OperandsEncoding(node, 0)

(***************************************************************************)
(* C12: Write of a non-jump node appends exactly the prefix byte (if and   *)
(* only if the scale is wider than single), the opcode byte and each       *)
(* operand in metadata order in its width of 1, 2 or 4 bytes; the bytes    *)
(* appended depend on the node alone, not on what the buffer holds.        *)
(***************************************************************************)
C12_EncodeStep ==
  /\ call'.op = "Write" =>
       /\ Completed
       /\ bytecodes' = PushAll(bytecodes, Encoding(call'.node))
  /\ call'.op = "WriteRun" =>
       /\ Completed
       /\ bytecodes' = PushRun(bytecodes, Encoding(call'.node)[1], call'.arg)

C12_PlainEncode == [][C12_EncodeStep]_vars

\* the same prefixed node was written first into the empty buffer and again
\* after another instruction: both times the same bytes were appended
C12_Witness ==
  /\ status = "running"
  /\ call.op = "Write"
  /\ call.node.operand_scale # kSingle
  /\ LET n == Len(Encoding(call.node))
     IN /\ Size(bytecodes) > 2 * n
        /\ BytesAt(bytecodes, 0, n) = Encoding(call.node)
        /\ BytesAt(bytecodes, Size(bytecodes) - n, n) = Encoding(call.node)

(***************************************************************************)
(* The registers an instruction refers to, from the node and the operand   *)
(* metadata alone.                                                         *)
(***************************************************************************)
\* positions (0-based) of the operands flagged as registers
RegisterPositions(node) ==
  {i \in 0..(NumberOfOperands(node.bytecode) - 1) :
     IsRegisterOperandType(OperandTypeAt(node.bytecode, i))}

\* registers spanned by the register operand at position i
SpanAt(node, i) ==
  IF OperandTypeAt(node.bytecode, i + 1) = "RegCount"
  THEN operand(node, i + 1)
  ELSE GetNumberOfRegistersRepresentedBy(OperandTypeAt(node.bytecode, i))

\* register_index + span of every register operand of the nodes
RegisterEnds(nodes) ==
  {RegisterIndex(operand(node, i)) + SpanAt(node, i) :
     << node, i >> \in {p \in nodes \X (0..2) : p[2] \in RegisterPositions(p[1])}}

MaxOf(S) == CHOOSE m \in S : \A x \in S : x <= m

(***************************************************************************)
(* C13 as stated: the register footprint never decreases, is changed by no *)
(* bind, and always equals the maximum of register_index + span over the   *)
(* register operands written so far (0 while none was written).            *)
(***************************************************************************)
C13_Original ==
  /\ [](max_register_count =
          IF RegisterEnds(written) = {} THEN 0 ELSE MaxOf(RegisterEnds(written)))
  /\ [][max_register_count' >= max_register_count]_vars

(***************************************************************************)
(* C13, amended: the register footprint starts at 0, never decreases, is   *)
(* changed by no bind, and always equals the maximum of 0 and of           *)
(* register_index + span over the register operands written so far: a      *)
(* register operand whose index + span is below zero leaves it unchanged.  *)
(***************************************************************************)
C13_FootprintStep ==
  /\ max_register_count' >= max_register_count
  /\ (BindStep \/ FinalizeStep) => max_register_count' = max_register_count

C13_RegisterFootprint ==
  /\ [](max_register_count = MaxOf(RegisterEnds(written) \cup {0}))
  /\ [][C13_FootprintStep]_vars

\* an operand with a register count and one that ends below zero were written,
\* and a bind followed
C13_Witness ==
  /\ status = "running"
  /\ call.op \in {"BindLabel", "BindLabelTo"}
  /\ \E node \in written : \E i \in RegisterPositions(node) :
       OperandTypeAt(node.bytecode, i + 1) = "RegCount"
  /\ \E x \in RegisterEnds(written) : x < 0
  /\ max_register_count = MaxOf(RegisterEnds(written))

(***************************************************************************)
(* C14: the frame size of the bytecode array is                            *)
(* max(fixed_register_count, register footprint) * pointer size, and it is *)
(* determined by the instructions written, whatever their order.           *)
(***************************************************************************)
C14_FrameSize ==
  status = "finalized" =>
    /\ artifact.frame_size = Max(call.arg, max_register_count) * kPointerSize
    /\ artifact.frame_size =
         Max(call.arg, MaxOf(RegisterEnds(written) \cup {0})) * kPointerSize

\* finalized after two different register-using instructions, the larger one
\* above the fixed register count
C14_Witness ==
  /\ status = "finalized"
  /\ Cardinality(RegisterEnds(written)) >= 2
  /\ max_register_count > call.arg
  /\ artifact.frame_size = max_register_count * kPointerSize

(***************************************************************************)
(* C15: Write of a node with a jump opcode, WriteJump of a node with a     *)
(* non-jump opcode and WriteJump of a jump node whose operand is not 0 are *)
(* fatal: none appends a byte, changes the pending jump count or changes a *)
(* label.                                                                  *)
(***************************************************************************)
C15_Misuse ==
  \/ call'.op = "Write" /\ IsJump(call'.node.bytecode)
  \/ call'.op = "WriteJump" /\ ~IsJump(call'.node.bytecode)
  \/ call'.op = "WriteJump" /\ IsJump(call'.node.bytecode)
       /\ operand(call'.node, 0) # 0

C15_MisuseStep ==
  C15_Misuse =>
    /\ status' = "fatal"
    /\ bytecodes' = bytecodes
    /\ unbound_jumps' = unbound_jumps
    /\ labels' = labels

C15_ProgrammerErrors == [][C15_MisuseStep]_vars

\* a jump node whose operand is not 0 was refused while a forward jump was
\* pending
C15_Witness ==
  /\ status = "fatal"
  /\ call.op = "WriteJump"
  /\ IsJump(call.node.bytecode)
  /\ operand(call.node, 0) # 0
  /\ unbound_jumps = 1
  /\ is_forward_target(labels[call.label])

(***************************************************************************)
(* C16: every Write and WriteJump, forward or backward, of a node with     *)
(* valid source info records exactly one position, whose offset is the     *)
(* buffer length at the start of the instruction (the offset of the prefix *)
(* byte if there is one); it is recorded before any byte is appended, so a *)
(* WriteJump refused for its operand has recorded it and appended nothing. *)
(* A node without valid info records none, and no bind records one.        *)
(***************************************************************************)
C16_Recorded ==
  IF call'.node.source_info.is_valid
  THEN Append(source_positions,
              [ bytecode_offset |-> Size(bytecodes),
                source_position |-> call'.node.source_info.source_position,
                is_statement |-> call'.node.source_info.is_statement ])
  ELSE source_positions

C16_PositionStep ==
  /\ (call'.op \in {"Write", "WriteRun", "WriteJump"} /\ Completed) =>
       source_positions' = C16_Recorded
  /\ (call'.op = "WriteJump" /\ IsJump(call'.node.bytecode)
        /\ operand(call'.node, 0) # 0) =>
       /\ source_positions' = C16_Recorded
       /\ bytecodes' = bytecodes
  /\ (BindStep \/ FinalizeStep) => source_positions' = source_positions

C16_SourcePositions == [][C16_PositionStep]_vars

\* a prefixed jump with valid source info was written after another instruction:
\* its position carries the offset of the prefix byte
C16_Witness ==
  /\ status = "running"
  /\ call.op = "WriteJump"
  /\ call.node.source_info.is_valid
  /\ source_positions # << >>
  /\ LET last == source_positions[Len(source_positions)]
     IN /\ last.bytecode_offset > 0
        /\ SitePrefix(bytecodes, last.bytecode_offset) = 1
        /\ IsJump(SiteOpcode(bytecodes, last.bytecode_offset))

(***************************************************************************)
(* C17: WriteJump to an unbound label appends the prefix (if any), the     *)
(* opcode and w zero bytes, w being the width of the reservation made for  *)
(* the jump, and records the start offset of the instruction as the        *)
(* label's referrer; the placeholder bytes of every jump not yet patched   *)
(* are zero in every state, so no patch fails its placeholder check.       *)
(***************************************************************************)
\* widths of which the step created a reservation
C17_ReservedWidths ==
  {z \in OperandSizes : constant_array'.reserved[z] = constant_array.reserved[z] + 1}

C17_ForwardStep ==
  (ForwardJumpStep /\ Completed) =>
    /\ Cardinality(C17_ReservedWidths) = 1
    /\ LET w == CHOOSE z \in C17_ReservedWidths : TRUE
           prefix == CASE w = kByte -> << >>
                       [] w = kShort -> << ToByte("Wide") >>
                       [] w = kQuad -> << ToByte("ExtraWide") >>
       IN bytecodes' = PushAll(bytecodes, prefix \o << ToByte(call'.node.bytecode) >>
                                          \o [k \in 1..w |-> 0])
    /\ labels'[call'.label] = [bound |-> FALSE, offset |-> Size(bytecodes)]

\* the run, and the position in it, that lies `off` bytes after the start of
\* run i
RECURSIVE C17_Locate(_, _, _)
C17_Locate(bytes, i, off) ==
  IF off < bytes[i].count THEN [run |-> i, off |-> off]
  ELSE C17_Locate(bytes, i + 1, off - bytes[i].count)

\* the w bytes from that position on are zero: they lie in one run of zero bytes
C17_ZeroFrom(bytes, at, w) ==
  /\ bytes[at.run].byte = 0
  /\ at.off + w <= bytes[at.run].count

\* the placeholder of the jump at r follows its opcode byte and has the width
\* its prefix byte announces
C17_PlaceholdersZero ==
  \A r \in pending_sites :
    LET site == RunOf(bytecodes, 1, 0, r)
        first == FromByte(bytecodes[site.run].byte)
        off == r - site.start
    IN IF first = "Wide"
       THEN C17_ZeroFrom(bytecodes, C17_Locate(bytecodes, site.run, off + 2), 2)
       ELSE IF first = "ExtraWide"
       THEN C17_ZeroFrom(bytecodes, C17_Locate(bytecodes, site.run, off + 2), 4)
       ELSE C17_ZeroFrom(bytecodes, C17_Locate(bytecodes, site.run, off + 1), 1)

C17_ZeroPlaceholders ==
  /\ [](C17_PlaceholdersZero)
  /\ [][C17_ForwardStep /\ (PatchStep => Completed)]_vars

\* a forward jump with a 4-byte placeholder is pending between two other
\* instructions
C17_Witness ==
  /\ status = "running"
  /\ \E r \in pending_sites :
       /\ r > 0
       /\ SiteWidth(bytecodes, r) = 4
       /\ Size(bytecodes) > SiteOperandAt(bytecodes, r) + 4

(***************************************************************************)
(* C18: forward patching and backward emission use one reference point:    *)
(* every jump that carries its displacement inline, written backward or    *)
(* patched forward, with or without prefix, holds the target offset minus  *)
(* the offset of its opcode byte.                                          *)
(***************************************************************************)
C18_InlineAt(bytes, r, target) ==
  SignedAt(bytes, SiteOperandAt(bytes, r), SiteWidth(bytes, r))
    = target - SiteOpcodeAt(bytes, r)

C18_ReferenceStep ==
  /\ (BackwardJumpStep /\ Completed) =>
       C18_InlineAt(bytecodes', Size(bytecodes), labels[call'.label].offset)
  /\ (PatchStep /\ Completed /\ IsJumpImmediate(SiteOpcode(bytecodes', PatchSite))) =>
       C18_InlineAt(bytecodes', PatchSite, PatchTarget)

C18_ReferencePoint == [][C18_ReferenceStep]_vars

(***************************************************************************)
(* C19: while no label has received two forward jumps before being bound,  *)
(* the pending jump count is the number of labels that are unbound and     *)
(* hold a referrer, and ToBytecodeArray succeeds exactly when no label     *)
(* holds one.                                                              *)
(***************************************************************************)
C19_ForwardTargets == {l \in Labels : is_forward_target(labels[l])}

\* every jump not yet patched is the referrer of a label of its own
C19_OneJumpPerLabel ==
  pending_sites = {labels[l].offset : l \in C19_ForwardTargets}

C19_FinalizeStep ==
  (FinalizeStep /\ C19_OneJumpPerLabel) =>
    (status' = "finalized" <=> C19_ForwardTargets = {})

C19_CountIsReferrers ==
  /\ [](C19_OneJumpPerLabel => unbound_jumps = Cardinality(C19_ForwardTargets))
  /\ [][C19_FinalizeStep]_vars

\* one label was patched and bound, another still holds a referrer, and
\* ToBytecodeArray was refused
C19_Witness ==
  /\ status = "fatal"
  /\ call.op = "ToBytecodeArray"
  /\ C19_OneJumpPerLabel
  /\ patched_sites # {}
  /\ Cardinality(C19_ForwardTargets) = 1

(***************************************************************************)
(* C20: the reservation protocol is balanced: a forward WriteJump creates  *)
(* one reservation, the patch of that jump resolves it by one discard or   *)
(* one commit of the width the jump was written with, no other call        *)
(* touches the pool; the reservations outstanding per width are the jumps  *)
(* not yet patched of that width, their number is the pending jump count,  *)
(* and none is outstanding once ToBytecodeArray has succeeded.             *)
(***************************************************************************)
C20_Outstanding(pool) ==
  pool.reserved[kByte] + pool.reserved[kShort] + pool.reserved[kQuad]

C20_Balanced ==
  /\ LET widths == {<< r, SiteWidth(bytecodes, r) >> : r \in pending_sites}
     IN \A w \in OperandSizes :
          constant_array.reserved[w] = Cardinality({p \in widths : p[2] = w})
  /\ C20_Outstanding(constant_array) = unbound_jumps
  /\ constant_array.discarded + Len(constant_array.entries) = Cardinality(patched_sites)
  /\ status = "finalized" => C20_Outstanding(constant_array) = 0

C20_PoolStep ==
  /\ (ForwardJumpStep /\ Completed) =>
       /\ constant_array'.reserved =
            [constant_array.reserved EXCEPT ![SiteWidth(bytecodes', Size(bytecodes))] = @ + 1]
       /\ constant_array'.entries = constant_array.entries
       /\ constant_array'.discarded = constant_array.discarded
  /\ (PatchStep /\ Completed) =>
       LET w == SiteWidth(bytecodes, PatchSite)
       IN \/ DiscardedOne(constant_array, constant_array', w)
          \/ CommittedOne(constant_array, constant_array', w, PatchDelta)
  /\ ~(ForwardJumpStep \/ PatchStep) => constant_array' = constant_array

C20_ReservationsBalanced ==
  /\ [](C20_Balanced)
  /\ [][C20_PoolStep]_vars

\* reservations of two widths were made, one was resolved by a commit and the
\* other is still outstanding
C20_Witness ==
  /\ status = "running"
  /\ Len(constant_array.entries) = 1
  /\ C20_Outstanding(constant_array) = 1
  /\ \E r \in pending_sites, q \in patched_sites :
       SiteWidth(bytecodes, r) # SiteWidth(bytecodes, q)
====
